---- MODULE Spec2Model ----
(***************************************************************************)
(* Playback engine of rmus: the Transport Clock (struct Track), the        *)
(* Playback Queue & Controller (struct AudioInterface) and the rodio sink  *)
(* it owns, driven from one control thread (UI::run).                      *)
(*                                                                         *)
(* Time is counted in ticks of the monotonic clock (Instant); every        *)
(* Instant::now()/elapsed() read made inside one call sees the same tick.  *)
(* An Option<T> is the empty sequence (None) or a one-element sequence.    *)
(***************************************************************************)
EXTENDS Integers, Sequences, FiniteSets

\* ------------------------------------------------------------------ bounds
\* File paths of the track descriptors that can be enqueued.
NumPaths == 3
\* Longest list handed to one append_to_queue call.
MaxLen == 2
\* Most tracks enqueued between two hard_clear_queue calls.
MaxEnq == 3
\* Last tick of the monotonic clock that the model lets pass.
MaxTime == 3
\* Ticks of the monotonic clock in one second.
TicksPerSec == 2
\* Most files the walk of the music folder finds.
MaxFiles == 3
\* Largest value of the model's usize (arithmetic wraps modulo UsizeMax + 1).
UsizeMax == 7
\* Most output devices the host enumerates.
MaxDevices == 3

Paths == 1..NumPaths

None == << >>
Some(x) == << x >>
is_none(o) == o = None
is_some(o) == o # None
unwrap(o) == o[1]

\* Track lists of length 0..n.
RECURSIVE Lists(_)
Lists(n) == IF n = 0 THEN { << >> }
            ELSE LET S == Lists(n - 1)
                 IN  S \cup { Append(l, p) : l \in { x \in S : Len(x) = n - 1 }, p \in Paths }

VARIABLES
    queue,              \* AudioInterface.queue: VecDeque<AudioFile>, by path
    currently_playing,  \* AudioInterface.currently_playing: Option<AudioFile>
    pause,              \* AudioInterface.pause
    track,              \* AudioInterface.track: the Transport Clock
    sink,               \* AudioInterface.sink: the sources it holds, its paused mode
    panicked,           \* the control thread panicked (the process is gone)
    now,                \* the monotonic clock
    enqueued,           \* history: the tracks enqueued since the last hard_clear_queue
    started,            \* history: the tracks made currently playing since then
    played,             \* history: the files play was called with since then
    run_ticks,          \* history: ticks passed with the clock Running since its reset
    last,               \* history: the operation that led to this state
    fresh,              \* history: no track was started since the last natural
                        \* completion was detected, the last hard_clear_queue or startup
    scan,               \* the files recursive_file_walk found, each with its tag read
    music_list,         \* LibraryWindow.music_list
    selected,           \* LibraryWindow.state.selected(): Option<usize>
    lib_pc,             \* the library window: "off", "scan" (not built yet), "ready"
    host_devices,       \* what cpal's output_devices() gives: Err (None) or the devices
    settings_device,    \* Settings.device
    devices,            \* Devices.devices
    device_names,       \* Devices.device_names
    current_device,     \* Devices.current_device
    start_pc,           \* main: "off", "load", "enumerated", "indexed", "running",
                        \* "window" (the settings window is built)
    dev_selected,       \* DeviceWindow.state.selected(): Option<usize>
    ui_pc,              \* UI::run: "off", "draw", "handle_queue", "poll", "done"
    current_tab,        \* UI.current_tab
    frames              \* history: the frames drawn since the last key was read

\* The variables outside the controller and its histories.
lib_vars == << scan, music_list, selected, lib_pc >>
dev_vars == << host_devices, settings_device, devices, device_names, current_device,
               start_pc, dev_selected >>
ui_vars == << ui_pc, current_tab, frames >>
other_vars == << lib_vars, dev_vars, ui_vars >>

vars == << queue, currently_playing, pause, track, sink, panicked, now,
           enqueued, started, played, run_ticks, last, fresh, other_vars >>

\* ------------------------------------------------------- Transport Clock
Track_new(t) == [ start_time |-> t, pause_time |-> None, pause_duration |-> 0 ]

\* Faulty variant: a resume overwrites the accumulated pause instead of adding to it.
Track_toggle_pause_overwrites(tr, t) ==
    IF is_some(tr.pause_time)
    THEN [ tr EXCEPT !.pause_duration = t - unwrap(tr.pause_time),
                     !.pause_time = None ]
    ELSE [ tr EXCEPT !.pause_time = Some(t) ]

\* Faulty variant: a resume forgets the pause it ends.
Track_toggle_pause_drops(tr, t) ==
    IF is_some(tr.pause_time)
    THEN [ tr EXCEPT !.pause_time = None ]
    ELSE [ tr EXCEPT !.pause_time = Some(t) ]

Track_toggle_pause(tr, t) ==
    IF is_some(tr.pause_time)
    THEN [ tr EXCEPT !.pause_duration = tr.pause_duration + (t - unwrap(tr.pause_time)),
                     !.pause_time = None ]
    ELSE [ tr EXCEPT !.pause_time = Some(t) ]

\* Faulty variant: the pause in progress is not subtracted.
Track_time_counts_pause(tr, t) == (t - tr.start_time) - tr.pause_duration

Track_time(tr, t) ==
    IF is_none(tr.pause_time)
    THEN (t - tr.start_time) - tr.pause_duration
    ELSE (t - tr.start_time) - (t - unwrap(tr.pause_time)) - tr.pause_duration

\* Faulty variant: only the start instant is renewed.
Track_reset_start_only(tr, t) == [ tr EXCEPT !.start_time = t ]

Track_reset(tr, t) ==
    [ tr EXCEPT !.start_time = t, !.pause_time = None, !.pause_duration = 0 ]

\* ------------------------------------------------------------ rodio sink
Sink_new == [ sounds |-> << >>, paused |-> FALSE ]
sink_empty(sk) == Len(sk.sounds) = 0
sink_stop(sk) == [ sk EXCEPT !.sounds = << >> ]
sink_append(sk, src) == [ sk EXCEPT !.sounds = Append(sk.sounds, src) ]
sink_pause(sk) == [ sk EXCEPT !.paused = TRUE ]
sink_play(sk) == [ sk EXCEPT !.paused = FALSE ]

\* ------------------------------------------------------------ Controller
\* The controller as a value: the fields of AudioInterface, whether the
\* thread panicked, and the history of tracks made currently playing.
Self == [ queue |-> queue, currently_playing |-> currently_playing, pause |-> pause,
          track |-> track, sink |-> sink, panicked |-> panicked, started |-> started,
          played |-> played ]

AudioInterface_new(t) ==
    [ queue |-> << >>, currently_playing |-> None, pause |-> FALSE,
      track |-> Track_new(t), sink |-> Sink_new, panicked |-> FALSE, started |-> << >>,
      played |-> << >> ]

get_paused(s) == s.pause

get_currently_playing(s) == s.currently_playing

get_next(s) == IF Len(s.queue) > 0 THEN Some(Head(s.queue)) ELSE None

\* Faulty variant: only the sink decides whether something is playing.
get_sink_length_sink_only(s, t) ==
    IF sink_empty(s.sink) THEN 0 ELSE Track_time(s.track, t) \div TicksPerSec

get_sink_length(s, t) ==
    IF sink_empty(s.sink) /\ is_none(s.currently_playing)
    THEN 0
    ELSE Track_time(s.track, t) \div TicksPerSec

\* play: stop the sink, open and decode the file (ok: both succeed), append.
\* The result is the sink, whether the call returned Ok, and the history of
\* the files play was called with.
play(s, file, ok) ==
    LET stopped == sink_stop(s.sink)
        called  == Append(s.played, file)
    IN  IF ok THEN [ sink |-> sink_append(stopped, file), ok |-> TRUE, played |-> called ]
        ELSE [ sink |-> stopped, ok |-> FALSE, played |-> called ]

\* Faulty variant: the pause flag survives the start of a track.
play_next_keeps_pause(s, ok, t) ==
    IF Len(s.queue) > 0
    THEN LET next == Head(s.queue)
             s1 == [ s EXCEPT !.queue = Tail(s.queue),
                              !.currently_playing = Some(next),
                              !.started = Append(s.started, next),
                              !.track = Track_reset(s.track, t) ]
             r  == play(s1, unwrap(s1.currently_playing), ok)
         IN  [ s1 EXCEPT !.sink = r.sink, !.panicked = ~r.ok, !.played = r.played ]
    ELSE s

\* Faulty variant: the head is read with front() and stays in the queue.
play_next_no_pop(s, ok, t) ==
    IF Len(s.queue) > 0
    THEN LET next == Head(s.queue)
             s1 == [ s EXCEPT !.currently_playing = Some(next),
                              !.started = Append(s.started, next),
                              !.track = Track_reset(s.track, t) ]
             s2 == IF s1.pause
                   THEN [ s1 EXCEPT !.pause = FALSE, !.sink = sink_play(s1.sink) ]
                   ELSE s1
             r  == play(s2, unwrap(s2.currently_playing), ok)
         IN  [ s2 EXCEPT !.sink = r.sink, !.panicked = ~r.ok, !.played = r.played ]
    ELSE s

\* Faulty variant: the clock and the pause flag are reset before the queue is
\* looked at, so also when there is nothing to start.
play_next_eager_reset(s, ok, t) ==
    LET s0 == [ s EXCEPT !.track = Track_reset(s.track, t), !.pause = FALSE,
                         !.sink = sink_play(s.sink) ]
    IN  IF Len(s0.queue) > 0
        THEN LET next == Head(s0.queue)
                 s1 == [ s0 EXCEPT !.queue = Tail(s0.queue),
                                   !.currently_playing = Some(next),
                                   !.started = Append(s0.started, next) ]
                 r  == play(s1, unwrap(s1.currently_playing), ok)
             IN  [ s1 EXCEPT !.sink = r.sink, !.panicked = ~r.ok, !.played = r.played ]
        ELSE s0

\* Faulty variant: the pause flag is cleared but the sink is not resumed.
play_next_flag_only(s, ok, t) ==
    IF Len(s.queue) > 0
    THEN LET next == Head(s.queue)
             s1 == [ s EXCEPT !.queue = Tail(s.queue),
                              !.currently_playing = Some(next),
                              !.started = Append(s.started, next),
                              !.track = Track_reset(s.track, t) ]
             s2 == IF s1.pause THEN [ s1 EXCEPT !.pause = FALSE ] ELSE s1
             r  == play(s2, unwrap(s2.currently_playing), ok)
         IN  [ s2 EXCEPT !.sink = r.sink, !.panicked = ~r.ok, !.played = r.played ]
    ELSE s

play_next(s, ok, t) ==
    IF Len(s.queue) > 0
    THEN LET next == Head(s.queue)
             s1 == [ s EXCEPT !.queue = Tail(s.queue),
                              !.currently_playing = Some(next),
                              !.started = Append(s.started, next),
                              !.track = Track_reset(s.track, t) ]
             s2 == IF s1.pause
                   THEN [ s1 EXCEPT !.pause = FALSE, !.sink = sink_play(s1.sink) ]
                   ELSE s1
             r  == play(s2, unwrap(s2.currently_playing), ok)
         IN  [ s2 EXCEPT !.sink = r.sink, !.panicked = ~r.ok, !.played = r.played ]
    ELSE s

\* Faulty variant: the flag and the clock are toggled, the sink is left alone.
toggle_pause_flag_only(s, t) ==
    [ s EXCEPT !.track = Track_toggle_pause(s.track, t), !.pause = ~s.pause ]

\* Faulty variant: every call pauses.
toggle_pause_sets(s, t) ==
    LET s1 == [ s EXCEPT !.track = Track_toggle_pause(s.track, t), !.pause = TRUE ]
    IN  [ s1 EXCEPT !.sink = sink_pause(s1.sink) ]

toggle_pause(s, t) ==
    LET s1 == [ s EXCEPT !.track = Track_toggle_pause(s.track, t), !.pause = ~s.pause ]
    IN  IF s1.pause
        THEN [ s1 EXCEPT !.sink = sink_pause(s1.sink) ]
        ELSE [ s1 EXCEPT !.sink = sink_play(s1.sink) ]

\* Faulty variant: an idle controller is not started.
append_to_queue_no_start(s, new_queue, ok, t) ==
    [ s EXCEPT !.queue = s.queue \o new_queue ]

\* Faulty variant: the new tracks go to the head of the queue.
append_to_queue_front(s, new_queue, ok, t) ==
    LET s1 == [ s EXCEPT !.queue = new_queue \o s.queue ]
    IN  IF is_none(s1.currently_playing) THEN play_next(s1, ok, t) ELSE s1

\* Faulty variant: an empty sink is taken for nothing playing.
append_to_queue_on_silence(s, new_queue, ok, t) ==
    LET s1 == [ s EXCEPT !.queue = s.queue \o new_queue ]
    IN  IF is_none(s1.currently_playing) \/ sink_empty(s1.sink)
        THEN play_next(s1, ok, t)
        ELSE s1

append_to_queue(s, new_queue, ok, t) ==
    LET s1 == [ s EXCEPT !.queue = s.queue \o new_queue ]
    IN  IF is_none(s1.currently_playing) THEN play_next(s1, ok, t) ELSE s1

\* Faulty variant: the queue is not emptied.
hard_clear_queue_keeps_queue(s) ==
    [ s EXCEPT !.sink = sink_stop(s.sink), !.currently_playing = None ]

\* Faulty variant: the sink keeps playing what it holds.
hard_clear_queue_keeps_sound(s) ==
    [ s EXCEPT !.queue = << >>, !.currently_playing = None ]

\* Faulty variant: the clear also lifts a pause.
hard_clear_queue_resumes(s) ==
    [ s EXCEPT !.queue = << >>, !.sink = sink_play(sink_stop(s.sink)),
               !.currently_playing = None, !.pause = FALSE,
               !.track = [ s.track EXCEPT !.pause_time = None ] ]

hard_clear_queue(s) ==
    [ s EXCEPT !.queue = << >>, !.sink = sink_stop(s.sink), !.currently_playing = None ]

\* Faulty variant: the current track is forgotten without asking the sink.
handle_queue_eager(s, ok, t) ==
    IF sink_empty(s.sink) /\ is_none(s.currently_playing)
    THEN play_next([ s EXCEPT !.currently_playing = get_next(s) ], ok, t)
    ELSE IF is_some(s.currently_playing)
         THEN [ s EXCEPT !.currently_playing = None ]
         ELSE s

\* Faulty variant: a finished track is followed by the next one in the same poll.
handle_queue_chains(s, ok, t) ==
    IF sink_empty(s.sink)
    THEN play_next([ s EXCEPT !.currently_playing = get_next(s) ], ok, t)
    ELSE s

\* Faulty variant: the head is decoded when it is read and again by play_next.
handle_queue_preloads(s, ok, t) ==
    IF sink_empty(s.sink) /\ is_none(s.currently_playing)
    THEN LET s1 == [ s EXCEPT !.currently_playing = get_next(s) ]
             r  == play(s1, unwrap(s1.currently_playing), ok)
             s2 == IF is_some(s1.currently_playing)
                   THEN [ s1 EXCEPT !.sink = r.sink, !.played = r.played ]
                   ELSE s1
         IN  play_next(s2, ok, t)
    ELSE IF sink_empty(s.sink) /\ is_some(s.currently_playing)
         THEN [ s EXCEPT !.currently_playing = None ]
         ELSE s

\* Faulty variant: a poll detects the end of a track but never starts one.
handle_queue_detect_only(s, ok, t) ==
    IF sink_empty(s.sink) /\ is_some(s.currently_playing)
    THEN [ s EXCEPT !.currently_playing = None ]
    ELSE s

\* Faulty variant: the head is taken off the queue before play_next pops.
handle_queue_pops(s, ok, t) ==
    IF sink_empty(s.sink) /\ is_none(s.currently_playing)
    THEN play_next([ s EXCEPT !.currently_playing = get_next(s),
                              !.queue = IF Len(s.queue) > 0 THEN Tail(s.queue)
                                        ELSE s.queue ], ok, t)
    ELSE IF sink_empty(s.sink) /\ is_some(s.currently_playing)
         THEN [ s EXCEPT !.currently_playing = None ]
         ELSE s

handle_queue(s, ok, t) ==
    IF sink_empty(s.sink) /\ is_none(s.currently_playing)
    THEN play_next([ s EXCEPT !.currently_playing = get_next(s) ], ok, t)
    ELSE IF sink_empty(s.sink) /\ is_some(s.currently_playing)
         THEN [ s EXCEPT !.currently_playing = None ]
         ELSE s

\* --------------------------------------------------------------- actions
\* The controller's fields after a call that returned s.
Becomes(s) ==
    /\ queue' = s.queue
    /\ currently_playing' = s.currently_playing
    /\ pause' = s.pause
    /\ track' = s.track
    /\ sink' = s.sink
    /\ panicked' = s.panicked
    /\ started' = s.started
    /\ played' = s.played

\* The history of the Transport Clock: a reset starts a new count.
ClockHistory(s) ==
    run_ticks' = IF Len(s.started) > Len(started) THEN 0 ELSE run_ticks

\* The history of starts: a started track ends the fresh period; a detected
\* natural completion or a clear (renewed) begins one.
StartHistory(s, renewed) ==
    fresh' = IF Len(s.started) > Len(started) THEN FALSE
             ELSE IF renewed THEN TRUE ELSE fresh

ControllerInit ==
    /\ now = 0
    /\ queue = AudioInterface_new(0).queue
    /\ currently_playing = AudioInterface_new(0).currently_playing
    /\ pause = AudioInterface_new(0).pause
    /\ track = AudioInterface_new(0).track
    /\ sink = AudioInterface_new(0).sink
    /\ panicked = FALSE
    /\ enqueued = << >>
    /\ started = << >>
    /\ played = << >>
    /\ run_ticks = 0
    /\ last = "new"
    /\ fresh = TRUE

\* The controller alone: no library window is built.
LibraryOff ==
    /\ scan = << >>
    /\ music_list = << >>
    /\ selected = None
    /\ lib_pc = "off"

\* The controller alone: startup is not followed.
StartupOff ==
    /\ host_devices = None
    /\ settings_device = 0
    /\ devices = << >>
    /\ device_names = << >>
    /\ current_device = 0
    /\ start_pc = "off"
    /\ dev_selected = None

\* The controller alone: no UI loop runs.
UIOff ==
    /\ ui_pc = "off"
    /\ current_tab = 0
    /\ frames = << >>

Init ==
    /\ ControllerInit
    /\ LibraryOff
    /\ StartupOff
    /\ UIOff

\* Time passes.
Tick ==
    /\ ~panicked
    /\ now < MaxTime
    /\ now' = now + 1
    /\ run_ticks' = IF is_none(track.pause_time) THEN run_ticks + 1 ELSE run_ticks
    /\ last' = "tick"
    /\ UNCHANGED << queue, currently_playing, pause, track, sink, panicked,
                    enqueued, started, played, fresh >>
    /\ UNCHANGED other_vars

\* The sink plays its source to the end (it does not advance while paused).
SinkFinish ==
    /\ ~panicked
    /\ ~sink_empty(sink)
    /\ ~sink.paused
    /\ sink' = [ sink EXCEPT !.sounds = Tail(sink.sounds) ]
    /\ UNCHANGED << queue, currently_playing, pause, track, panicked, now,
                    enqueued, started, played, run_ticks, last, fresh >>
    /\ UNCHANGED other_vars

\* Key 'c' of UI::run.
TogglePause ==
    /\ ~panicked
    /\ Becomes(toggle_pause(Self, now))
    /\ last' = "toggle_pause"
    /\ UNCHANGED << now, enqueued, run_ticks, fresh >>
    /\ UNCHANGED other_vars

AppendToQueue ==
    /\ ~panicked
    /\ \E new_queue \in Lists(MaxLen), ok \in BOOLEAN :
          /\ Len(enqueued) + Len(new_queue) <= MaxEnq
          /\ LET s == append_to_queue(Self, new_queue, ok, now)
             IN  /\ Becomes(s)
                 /\ ClockHistory(s)
                 /\ StartHistory(s, FALSE)
          /\ enqueued' = enqueued \o new_queue
    /\ last' = "append_to_queue"
    /\ UNCHANGED now
    /\ UNCHANGED other_vars

HardClearQueue ==
    /\ ~panicked
    /\ LET s == hard_clear_queue(Self)
       IN  Becomes([ s EXCEPT !.started = << >>, !.played = << >> ])
    /\ fresh' = TRUE
    /\ enqueued' = << >>
    /\ last' = "hard_clear_queue"
    /\ UNCHANGED << now, run_ticks >>
    /\ UNCHANGED other_vars

\* One poll of UI::run.
HandleQueue ==
    /\ ~panicked
    /\ \E ok \in BOOLEAN :
          LET s == handle_queue(Self, ok, now)
          IN  /\ Becomes(s)
              /\ ClockHistory(s)
              /\ StartHistory(s, sink_empty(sink) /\ is_some(currently_playing))
    /\ last' = "handle_queue"
    /\ UNCHANGED << now, enqueued >>
    /\ UNCHANGED other_vars

Next ==
    \/ Tick
    \/ SinkFinish
    \/ TogglePause
    \/ AppendToQueue
    \/ HardClearQueue
    \/ HandleQueue

Spec == Init /\ [][Next]_vars

\* --------------------------------------------------------------- library
\* What Tag::read_from_path makes of a file: an error (None), a tag without
\* any of the fields, or a tag with all of them.
TagEmpty == [ title |-> None, artist |-> None, year |-> None, album |-> None,
              duration |-> None ]
TagFull == [ title |-> Some("title"), artist |-> Some("artist"), year |-> Some(1999),
             album |-> Some("album"), duration |-> Some(180) ]
TagReads == { None, Some(TagEmpty), Some(TagFull) }

\* The results of a walk: up to MaxFiles files of different paths.
Scans ==
    UNION { { [ i \in 1..Len(l) |-> [ path |-> l[i], tag |-> tags[i] ] ] :
                tags \in [ 1..Len(l) -> TagReads ] } :
            l \in { x \in Lists(MaxFiles) : \A i, j \in DOMAIN x : i # j => x[i] # x[j] } }

unwrap_or(o, default) == IF o = None THEN default ELSE o[1]

\* Faulty variant: a file whose tag cannot be read still gives a descriptor.
AudioFile_new_partial(file) ==
    LET tag == unwrap_or(file.tag, TagEmpty)
    IN  Some([ path |-> file.path,
               title |-> unwrap_or(tag.title, "Unknown"),
               year |-> unwrap_or(tag.year, 0),
               artist |-> unwrap_or(tag.artist, "Unknown"),
               album |-> unwrap_or(tag.album, "Unknown"),
               duration |-> unwrap_or(tag.duration, 0) ])

\* AudioFile::new: Ok(descriptor) as Some, Err as None.
AudioFile_new(file) ==
    IF is_some(file.tag)
    THEN LET tag == unwrap(file.tag)
         IN  Some([ path |-> file.path,
                    title |-> unwrap_or(tag.title, "Unknown"),
                    year |-> unwrap_or(tag.year, 0),
                    artist |-> unwrap_or(tag.artist, "Unknown"),
                    album |-> unwrap_or(tag.album, "Unknown"),
                    duration |-> unwrap_or(tag.duration, 0) ])
    ELSE None

get_path(audiofile) == audiofile.path

\* The filter_map of LibraryWindow::new over the files of the walk.
RECURSIVE filter_map_new(_)
filter_map_new(files) ==
    IF Len(files) = 0 THEN << >>
    ELSE LET r == AudioFile_new(Head(files))
         IN  (IF is_some(r) THEN << unwrap(r) >> ELSE << >>) \o filter_map_new(Tail(files))

LibraryWindow_new(files) ==
    [ music_list |-> filter_map_new(files), selected |-> Some(0) ]

\* slice.get(a..b) with 0-based bounds: None when the range is out of bounds.
slice_get(l, a, b) ==
    IF a <= b /\ b <= Len(l) THEN Some(SubSeq(l, a + 1, b)) ELSE None

\* Faulty variant: the two halves are put back in their old order.
get_wrapped_music_list_unrotated(list, i) ==
    LET first_half == unwrap_or(slice_get(list, 0, i), << >>)
        second_half == unwrap_or(slice_get(list, i, Len(list)), << >>)
    IN  first_half \o second_half

\* Faulty variant: an index equal to the length counts as out of range.
get_wrapped_music_list_strict(list, i) ==
    IF i < Len(list)
    THEN SubSeq(list, i + 1, Len(list)) \o SubSeq(list, 1, i)
    ELSE << >>

\* get(i..) is get(i..len); with i > len both ranges are out of bounds.
get_wrapped_music_list(list, i) ==
    LET first_half == unwrap_or(slice_get(list, 0, i), << >>)
        second_half == unwrap_or(slice_get(list, i, Len(list)), << >>)
    IN  second_half \o first_half

\* usize subtraction: with overflow checks it panics below 0 (None), without
\* them it wraps.
usize_sub(a, b, checks) ==
    IF a >= b THEN Some(a - b)
    ELSE IF checks THEN None ELSE Some((a - b) % (UsizeMax + 1))

\* Faulty variant: the last row steps on instead of wrapping to the first.
LibraryWindow_next_no_wrap(list, sel, checks) ==
    IF is_some(sel) THEN Some(Some(unwrap(sel) + 1)) ELSE Some(Some(0))

\* LibraryWindow::next: the new selection, or None when len() - 1 panics.
LibraryWindow_next(list, sel, checks) ==
    IF is_some(sel)
    THEN LET i == unwrap(sel)
             m == usize_sub(Len(list), 1, checks)
         IN  IF is_none(m) THEN None
             ELSE IF i >= unwrap(m) THEN Some(Some(0)) ELSE Some(Some(i + 1))
    ELSE Some(Some(0))

\* LibraryWindow::previous: the new selection, or None when len() - 1 panics.
LibraryWindow_previous(list, sel, checks) ==
    IF is_some(sel)
    THEN LET i == unwrap(sel)
         IN  IF i = 0
             THEN LET m == usize_sub(Len(list), 1, checks)
                  IN  IF is_none(m) THEN None ELSE Some(Some(unwrap(m)))
             ELSE Some(Some(i - 1))
    ELSE Some(Some(0))

\* The paths of a list of descriptors: what the controller keeps of them.
RECURSIVE PathsOf(_)
PathsOf(list) ==
    IF Len(list) = 0 THEN << >> ELSE << get_path(Head(list)) >> \o PathsOf(Tail(list))

\* The library window is built from the files of the walk.
LibraryNew ==
    /\ ~panicked
    /\ lib_pc = "scan"
    /\ music_list' = LibraryWindow_new(scan).music_list
    /\ selected' = LibraryWindow_new(scan).selected
    /\ lib_pc' = "ready"
    /\ last' = "library_new"
    /\ UNCHANGED << queue, currently_playing, pause, track, sink, panicked, now,
                    enqueued, started, played, run_ticks, fresh, scan >>
    /\ UNCHANGED << dev_vars, ui_vars >>

\* A selection key: the new selection, or the panic of the subtraction.
Select(r, name) ==
    /\ ~panicked
    /\ lib_pc = "ready"
    /\ IF is_none(r)
       THEN panicked' = TRUE /\ UNCHANGED selected
       ELSE selected' = unwrap(r) /\ UNCHANGED panicked
    /\ last' = name
    /\ UNCHANGED << queue, currently_playing, pause, track, sink, now,
                    enqueued, started, played, run_ticks, fresh, scan, music_list, lib_pc >>
    /\ UNCHANGED dev_vars

\* KeyCode::Down.
LibraryDown ==
    /\ \E checks \in BOOLEAN :
          Select(LibraryWindow_next(music_list, selected, checks), "library_next")
    /\ UNCHANGED ui_vars

\* KeyCode::Up.
LibraryUp ==
    /\ \E checks \in BOOLEAN :
          Select(LibraryWindow_previous(music_list, selected, checks), "library_previous")
    /\ UNCHANGED ui_vars

\* KeyCode::Enter: clear, then enqueue the list rotated to the selection.
handle_input_Enter ==
    /\ ~panicked
    /\ lib_pc = "ready"
    /\ is_some(selected)
    /\ \E ok \in BOOLEAN :
          LET wrapped_music_list == get_wrapped_music_list(music_list, unwrap(selected))
              s0 == [ hard_clear_queue(Self) EXCEPT !.started = << >>, !.played = << >> ]
              s  == append_to_queue(s0, PathsOf(wrapped_music_list), ok, now)
          IN  /\ Becomes(s)
              /\ run_ticks' = IF Len(s.started) > 0 THEN 0 ELSE run_ticks
              /\ fresh' = (Len(s.started) = 0)
              /\ enqueued' = PathsOf(wrapped_music_list)
    /\ last' = "library_enter"
    /\ UNCHANGED << now, scan, music_list, selected, lib_pc >>
    /\ UNCHANGED dev_vars

LibraryEnter ==
    /\ handle_input_Enter
    /\ UNCHANGED ui_vars

LibraryInit ==
    /\ ControllerInit
    /\ scan \in Scans
    /\ music_list = << >>
    /\ selected = None
    /\ lib_pc = "scan"
    /\ StartupOff
    /\ UIOff

LibraryNext ==
    \/ LibraryNew
    \/ LibraryDown
    \/ LibraryUp
    \/ LibraryEnter

SpecLibrary == LibraryInit /\ [][LibraryNext]_vars

\* --------------------------------------------------------------- startup
\* The name a device reports.
DeviceName(d) == << "dev1", "dev2", "dev3", "dev4", "dev5" >>[d]

\* How a device answers name(): "named" always, "unnamed" never, "lost" at
\* the first call of Devices::new but not at the second.
NameReads == { "named", "unnamed", "lost" }

\* The outcomes of output_devices(): an error, or up to MaxDevices devices.
HostOutcomes ==
    { None } \cup
    { Some(l) : l \in UNION { [ 1..n -> NameReads ] : n \in 0..MaxDevices } }

\* device.name() at its first and at its second call in Devices::new.
name_first(reads, d) == IF reads[d] = "unnamed" THEN None ELSE Some(DeviceName(d))
name_second(reads, d) == IF reads[d] = "named" THEN Some(DeviceName(d)) ELSE None

RECURSIVE push_named(_, _)
push_named(reads, d) ==
    IF d > Len(reads) THEN << >>
    ELSE (IF is_some(name_first(reads, d)) THEN << d >> ELSE << >>)
         \o push_named(reads, d + 1)

\* Faulty variant: the names are taken from every device of the host, also
\* from those left out of the device list.
Devices_new_all_names(host, curr_device) ==
    IF is_none(host) THEN None
    ELSE LET reads == unwrap(host)
         IN  Some([ devices |-> push_named(reads, 1),
                    device_names |-> [ k \in 1..Len(reads) |->
                                         unwrap_or(name_second(reads, k), "Unknown") ],
                    current_device |-> curr_device ])

\* Devices::new: None when output_devices() fails (panic "No devices found").
Devices_new(host, curr_device) ==
    IF is_none(host) THEN None
    ELSE LET reads == unwrap(host)
             devs == push_named(reads, 1)
         IN  Some([ devices |-> devs,
                    device_names |-> [ k \in 1..Len(devs) |->
                                         unwrap_or(name_second(reads, devs[k]), "Unknown") ],
                    current_device |-> curr_device ])

\* &self.devices[index], 0-based: None when the index is out of bounds (panic).
get_device_by_index(devs, index) ==
    IF index < Len(devs) THEN Some(devs[index + 1]) ELSE None

get_device_names(names) == names

get_current_device(curr) == curr

StartupStep(pc, name) ==
    /\ start_pc' = pc
    /\ last' = name
    /\ UNCHANGED << queue, currently_playing, pause, track, sink, now,
                    enqueued, started, played, run_ticks, fresh, host_devices, settings_device,
                    dev_selected >>
    /\ UNCHANGED << lib_vars, ui_vars >>

\* main: Devices::new(settings.get_device()).
StartupDevices ==
    /\ ~panicked
    /\ start_pc = "load"
    /\ LET r == Devices_new(host_devices, settings_device)
       IN  IF is_none(r)
           THEN panicked' = TRUE /\ UNCHANGED << devices, device_names, current_device >>
           ELSE /\ devices' = unwrap(r).devices
                /\ device_names' = unwrap(r).device_names
                /\ current_device' = unwrap(r).current_device
                /\ UNCHANGED panicked
    /\ StartupStep("enumerated", "devices_new")

\* main: devices.get_device_by_index(device).
StartupIndex ==
    /\ ~panicked
    /\ start_pc = "enumerated"
    /\ panicked' = is_none(get_device_by_index(devices, settings_device))
    /\ UNCHANGED << devices, device_names, current_device >>
    /\ StartupStep("indexed", "get_device_by_index")

\* main: the output stream and the sink are opened (unwrap on both).
StartupStream ==
    /\ ~panicked
    /\ start_pc = "indexed"
    /\ \E ok \in BOOLEAN : panicked' = ~ok
    /\ UNCHANGED << devices, device_names, current_device >>
    /\ StartupStep("running", "try_from_device")

StartupInit ==
    /\ ControllerInit
    /\ LibraryOff
    /\ host_devices \in HostOutcomes
    /\ settings_device \in 0..MaxDevices
    /\ devices = << >>
    /\ device_names = << >>
    /\ current_device = 0
    /\ start_pc = "load"
    /\ dev_selected = None
    /\ UIOff

\* The registry as a value.
Registry ==
    [ devices |-> devices, device_names |-> device_names,
      current_device |-> current_device ]

\* DeviceWindow::new: the setting takes the registry's current device and
\* the first row is selected.
DeviceWindow_new(reg) ==
    [ device |-> get_current_device(reg.current_device), selected |-> Some(0) ]

\* DeviceWindow::previous: the new selection, or None when len() - 1 panics.
DeviceWindow_previous(reg, sel, checks) ==
    IF is_some(sel)
    THEN LET i == unwrap(sel)
             m == usize_sub(Len(get_device_names(reg.device_names)), 1, checks)
         IN  IF is_none(m) THEN None
             ELSE IF i >= unwrap(m) THEN Some(Some(0)) ELSE Some(Some(i + 1))
    ELSE Some(Some(0))

\* DeviceWindow::next: the new selection, or None when len() - 1 panics.
DeviceWindow_next(reg, sel, checks) ==
    IF is_some(sel)
    THEN LET i == unwrap(sel)
         IN  IF i = 0
             THEN LET m == usize_sub(Len(get_device_names(reg.device_names)), 1, checks)
                  IN  IF is_none(m) THEN None ELSE Some(Some(unwrap(m)))
             ELSE Some(Some(i - 1))
    ELSE Some(Some(0))

\* Faulty variant: the chosen device is also made the registry's current one.
DeviceWindow_enter_applies(reg, sel) ==
    IF is_some(sel)
    THEN Some([ registry |-> [ reg EXCEPT !.current_device = unwrap(sel) ],
                device |-> unwrap(sel) ])
    ELSE None

\* KeyCode::Enter of DeviceWindow::handle_input: the registry and the
\* setting after it, or None when the unwrap of the selection panics.
DeviceWindow_enter(reg, sel) ==
    IF is_some(sel)
    THEN Some([ registry |-> reg, device |-> unwrap(sel) ])
    ELSE None

\* A step of the device window: the controller and the library are not used.
DeviceStep(name) ==
    /\ ~panicked
    /\ start_pc = "window"
    /\ last' = name
    /\ UNCHANGED << queue, currently_playing, pause, track, sink, now,
                    enqueued, started, played, run_ticks, fresh, host_devices, start_pc >>
    /\ UNCHANGED << lib_vars, ui_vars >>

\* main: SettingsWindow::new builds the device window.
StartupWindow ==
    /\ ~panicked
    /\ start_pc = "running"
    /\ start_pc' = "window"
    /\ settings_device' = DeviceWindow_new(Registry).device
    /\ dev_selected' = DeviceWindow_new(Registry).selected
    /\ last' = "device_window_new"
    /\ UNCHANGED << queue, currently_playing, pause, track, sink, panicked, now,
                    enqueued, started, played, run_ticks, fresh, host_devices,
                    devices, device_names, current_device >>
    /\ UNCHANGED << lib_vars, ui_vars >>

\* A selection key of the device window.
DeviceSelect(r, name) ==
    /\ DeviceStep(name)
    /\ IF is_none(r)
       THEN panicked' = TRUE /\ UNCHANGED dev_selected
       ELSE dev_selected' = unwrap(r) /\ UNCHANGED panicked
    /\ UNCHANGED << settings_device, devices, device_names, current_device >>

\* KeyCode::Up.
DeviceUp ==
    \E checks \in BOOLEAN :
        DeviceSelect(DeviceWindow_next(Registry, dev_selected, checks), "device_next")

\* KeyCode::Down.
DeviceDown ==
    \E checks \in BOOLEAN :
        DeviceSelect(DeviceWindow_previous(Registry, dev_selected, checks),
                     "device_previous")

\* KeyCode::Enter.
DeviceEnter ==
    /\ DeviceStep("device_enter")
    /\ LET r == DeviceWindow_enter(Registry, dev_selected)
       IN  IF is_none(r)
           THEN /\ panicked' = TRUE
                /\ UNCHANGED << settings_device, devices, device_names, current_device >>
           ELSE /\ settings_device' = unwrap(r).device
                /\ devices' = unwrap(r).registry.devices
                /\ device_names' = unwrap(r).registry.device_names
                /\ current_device' = unwrap(r).registry.current_device
                /\ UNCHANGED panicked
    /\ UNCHANGED dev_selected

StartupNext ==
    \/ StartupDevices
    \/ StartupIndex
    \/ StartupStream
    \/ StartupWindow
    \/ DeviceUp
    \/ DeviceDown
    \/ DeviceEnter

SpecStartup == StartupInit /\ [][StartupNext]_vars

\* --------------------------------------------------------------- UI loop
\* Most frames followed between two keys.
MaxFrames == 5
\* The windows main pushes: library (tab 0), player, tidal, settings.
NumWindows == 4

\* Faulty variant: showing the next track takes it off the queue.
UpNextWindow_draw_pops(s) ==
    [ self |-> [ s EXCEPT !.queue = IF Len(s.queue) > 0 THEN Tail(s.queue) ELSE s.queue ],
      next_up |-> get_next(s) ]

\* UpNextWindow::draw: the controller after it and the track it shows.
UpNextWindow_draw(s) == [ self |-> s, next_up |-> get_next(s) ]

\* Iterator::position over the paths of the list, 0-based.
position(list, path) ==
    LET hits == { k \in 1..Len(list) : get_path(list[k]) = path }
    IN  IF hits = { } THEN None
        ELSE Some((CHOOSE k \in hits : \A j \in hits : k <= j) - 1)

\* LibraryWindow::draw: the row it highlights and the label of the progress
\* bar (None for "Nothing Playing"); the unwrap of position panics when the
\* current track is not in the list.
LibraryWindow_draw(s, list, t) ==
    LET cp == get_currently_playing(s)
        index == IF is_some(cp) THEN position(list, unwrap(cp)) ELSE None
    IN  IF is_some(cp) /\ is_none(index)
        THEN [ self |-> [ s EXCEPT !.panicked = TRUE ],
               highlighted |-> None, label |-> None ]
        ELSE [ self |-> s,
               highlighted |-> index,
               label |-> IF is_some(cp)
                         THEN Some([ track |-> unwrap(cp),
                                     paused |-> get_paused(s),
                                     seconds |-> get_sink_length(s, t) ])
                         ELSE None ]

\* UI::draw: the up-next box, then the window of the current tab; only the
\* library window reads the controller.
UI_draw(s, tab, list, t) ==
    LET up  == UpNextWindow_draw(s)
        win == IF tab = 0 THEN LibraryWindow_draw(up.self, list, t)
               ELSE [ self |-> up.self, highlighted |-> None, label |-> None ]
    IN  [ self |-> win.self,
          frame |-> [ tab |-> tab, next_up |-> up.next_up,
                      highlighted |-> win.highlighted, label |-> win.label ] ]

next_tab(tab) == (tab + 1) % NumWindows
previous_tab(tab) == IF tab > 0 THEN tab - 1 ELSE NumWindows - 1

\* The files of a walk in path order.
UIScans == { sc \in Scans : \A i \in DOMAIN sc : sc[i].path = i }

\* The loop is entered with the library window built and tab 0 current.
UIInit ==
    /\ ControllerInit
    /\ StartupOff
    /\ scan \in UIScans
    /\ music_list = LibraryWindow_new(scan).music_list
    /\ selected = LibraryWindow_new(scan).selected
    /\ lib_pc = "ready"
    /\ ui_pc = "draw"
    /\ current_tab = 0
    /\ frames = << >>

\* self.draw(&mut up_next): a frame is rendered; the history keeps, with
\* what the frame shows, how many tracks were started when it was drawn.
UIDraw ==
    /\ ~panicked
    /\ ui_pc = "draw"
    /\ Len(frames) < MaxFrames
    /\ LET d == UI_draw(Self, current_tab, music_list, now)
       IN  /\ Becomes(d.self)
           /\ frames' = IF d.self.panicked THEN frames
                        ELSE Append(frames, [ shown |-> d.frame, starts |-> Len(started) ])
    /\ ui_pc' = "handle_queue"
    /\ last' = "draw"
    /\ UNCHANGED << now, enqueued, run_ticks, fresh, current_tab >>
    /\ UNCHANGED << lib_vars, dev_vars >>

\* self.audio_interface.borrow_mut().handle_queue().
UIHandleQueue ==
    /\ ~panicked
    /\ ui_pc = "handle_queue"
    /\ \E ok \in BOOLEAN :
          LET s == handle_queue(Self, ok, now)
          IN  /\ Becomes(s)
              /\ ClockHistory(s)
              /\ StartHistory(s, sink_empty(sink) /\ is_some(currently_playing))
    /\ ui_pc' = "poll"
    /\ last' = "handle_queue"
    /\ UNCHANGED << now, enqueued, current_tab, frames >>
    /\ UNCHANGED << lib_vars, dev_vars >>

\* poll(TICK_RATE) gives false, or the event read is not a key.
UITimeout ==
    /\ ~panicked
    /\ ui_pc = "poll"
    /\ ui_pc' = "draw"
    /\ last' = "poll"
    /\ UNCHANGED << queue, currently_playing, pause, track, sink, panicked, now,
                    enqueued, started, played, run_ticks, fresh, current_tab, frames >>
    /\ UNCHANGED << lib_vars, dev_vars >>

\* A key was read: the loop goes on to the next frame.
AfterKey(tab) ==
    /\ ui_pc = "poll"
    /\ ui_pc' = "draw"
    /\ current_tab' = tab
    /\ frames' = << >>

\* A key that leaves the controller and the library window alone.
NoEffect(name) ==
    /\ ~panicked
    /\ last' = name
    /\ UNCHANGED << queue, currently_playing, pause, track, sink, panicked, now,
                    enqueued, started, played, run_ticks, fresh >>
    /\ UNCHANGED << lib_vars, dev_vars >>

\* KeyCode::Char('q'): the loop is left.
UIQuit ==
    /\ ui_pc = "poll"
    /\ ui_pc' = "done"
    /\ NoEffect("quit")
    /\ UNCHANGED << current_tab, frames >>

\* KeyCode::Char('h').
UIKeyH == AfterKey(previous_tab(current_tab)) /\ NoEffect("previous_tab")

\* KeyCode::Char('l').
UIKeyL == AfterKey(next_tab(current_tab)) /\ NoEffect("next_tab")

\* KeyCode::Char('c').
UIKeyC ==
    /\ ~panicked
    /\ AfterKey(current_tab)
    /\ Becomes(toggle_pause(Self, now))
    /\ last' = "toggle_pause"
    /\ UNCHANGED << now, enqueued, run_ticks, fresh >>
    /\ UNCHANGED << lib_vars, dev_vars >>

\* KeyCode::Down given to the library window.
UIKeyDown ==
    /\ current_tab = 0
    /\ AfterKey(current_tab)
    /\ \E checks \in BOOLEAN :
          Select(LibraryWindow_next(music_list, selected, checks), "library_next")

\* KeyCode::Up given to the library window.
UIKeyUp ==
    /\ current_tab = 0
    /\ AfterKey(current_tab)
    /\ \E checks \in BOOLEAN :
          Select(LibraryWindow_previous(music_list, selected, checks), "library_previous")

\* KeyCode::Enter given to the library window.
UIKeyEnter ==
    /\ current_tab = 0
    /\ AfterKey(current_tab)
    /\ handle_input_Enter

\* Any other key, or a key given to a window that does not use the controller.
UIKeyOther == AfterKey(current_tab) /\ NoEffect("handle_input")

UINext ==
    \/ UIDraw
    \/ UIHandleQueue
    \/ UITimeout
    \/ UIQuit
    \/ UIKeyH
    \/ UIKeyL
    \/ UIKeyC
    \/ UIKeyDown
    \/ UIKeyUp
    \/ UIKeyEnter
    \/ UIKeyOther
    \/ SinkFinish

SpecUI == UIInit /\ [][UINext]_vars

\* ----------------------------------------------------------------- drain
\* The controller driven for ever: every decode succeeds, the queue holds at
\* most MaxLen tracks, and the histories of enqueued and started tracks are
\* not kept (they would grow without bound).
DrainBecomes(s) ==
    /\ queue' = s.queue
    /\ currently_playing' = s.currently_playing
    /\ pause' = s.pause
    /\ track' = s.track
    /\ sink' = s.sink
    /\ panicked' = s.panicked
    /\ started' = << >>
    /\ played' = << >>
    /\ enqueued' = << >>
    /\ UNCHANGED << now, run_ticks >>
    /\ UNCHANGED other_vars

DrainAppend ==
    /\ \E new_queue \in Lists(MaxLen) :
          /\ Len(queue) + Len(new_queue) <= MaxLen
          /\ LET s == append_to_queue(Self, new_queue, TRUE, now)
             IN  DrainBecomes(s) /\ StartHistory(s, FALSE)
    /\ last' = "append_to_queue"

DrainClear ==
    /\ DrainBecomes(hard_clear_queue(Self))
    /\ fresh' = TRUE
    /\ last' = "hard_clear_queue"

\* The poll of UI::run.
DrainPoll ==
    /\ LET s == handle_queue(Self, TRUE, now)
       IN  /\ DrainBecomes(s)
           /\ StartHistory(s, sink_empty(sink) /\ is_some(currently_playing))
    /\ last' = "handle_queue"

\* Key 'c' while not paused.
DrainPause ==
    /\ ~pause
    /\ DrainBecomes(toggle_pause(Self, now))
    /\ last' = "toggle_pause"
    /\ UNCHANGED fresh

\* Key 'c' while paused.
DrainResume ==
    /\ pause
    /\ DrainBecomes(toggle_pause(Self, now))
    /\ last' = "toggle_pause"
    /\ UNCHANGED fresh

DrainNext ==
    \/ DrainAppend
    \/ DrainClear
    \/ DrainPoll
    \/ DrainPause
    \/ DrainResume
    \/ SinkFinish

\* The polls go on for ever, a pause is not left standing, and a track that
\* is allowed to sound again and again reaches its end.
SpecDrain ==
    /\ Init
    /\ [][DrainNext]_vars
    /\ WF_vars(DrainPoll)
    /\ WF_vars(DrainResume)
    /\ SF_vars(SinkFinish)

\* ---------------------------------------------------------------- claims
IsPrefix(a, b) == Len(a) <= Len(b) /\ SubSeq(b, 1, Len(a)) = a
Range(f) == { f[i] : i \in DOMAIN f }
NoDup(f) == \A i, j \in DOMAIN f : i # j => f[i] # f[j]
Later == now..MaxTime

\* C1: natural completion takes two polls. From a state with a track recorded
\* as currently playing, the sink empty and the queue non-empty, one
\* handle_queue only sets currently_playing to None (the queue and every other
\* field are untouched); the handle_queue after it pops the head of the queue,
\* records it as currently playing and, when the file decodes, has it sounding.
C1_TwoPolls ==
    (is_some(currently_playing) /\ sink_empty(sink) /\ Len(queue) > 0) =>
        \A ok1 \in BOOLEAN, ok2 \in BOOLEAN, t1 \in Later :
            LET s1 == handle_queue(Self, ok1, now)
                s2 == handle_queue(s1, ok2, t1)
            IN  /\ s1 = [ Self EXCEPT !.currently_playing = None ]
                /\ s2.queue = Tail(queue)
                /\ s2.currently_playing = Some(Head(queue))
                /\ s2.started = Append(started, Head(queue))
                /\ ok2 => (s2.sink.sounds = << Head(queue) >> /\ ~s2.panicked)

\* A poll found the track finished with tracks waiting and only went idle.
C1_Witness ==
    /\ last = "handle_queue"
    /\ is_none(currently_playing)
    /\ Len(started) > 0
    /\ Len(queue) > 0
    /\ ~panicked

\* C2: append_to_queue of a non-empty list L on an idle controller makes the
\* first element of L currently playing and leaves the rest of L, in order, as
\* the queue, so that get_next is the second element of L, or None.
C2_EnqueueOnIdle ==
    (is_none(currently_playing) /\ Len(queue) = 0) =>
        \A L \in Lists(MaxLen), ok \in BOOLEAN :
            Len(L) > 0 =>
                LET s == append_to_queue(Self, L, ok, now)
                IN  /\ s.currently_playing = Some(L[1])
                    /\ s.queue = Tail(L)
                    /\ get_next(s) = IF Len(L) > 1 THEN Some(L[2]) ELSE None

\* An idle controller was given two different tracks and started the first.
C2_Witness ==
    /\ last = "append_to_queue"
    /\ Len(enqueued) = 2
    /\ enqueued[1] # enqueued[2]
    /\ currently_playing = Some(enqueued[1])
    /\ queue = << enqueued[2] >>
    /\ started = << enqueued[1] >>
    /\ ~panicked

\* C3: the queue is FIFO. The tracks made currently playing since the last
\* hard_clear_queue are, in order, a prefix of the tracks enqueued since then,
\* and the queue is exactly the rest of them.
C3_Fifo ==
    /\ IsPrefix(started, enqueued)
    /\ enqueued = started \o queue

\* Two enqueues, two different tracks started in order, a third waiting.
C3_Witness ==
    /\ Len(started) = 2
    /\ started[1] # started[2]
    /\ Len(queue) = 1
    /\ queue[1] # started[2]
    /\ last = "handle_queue"
    /\ ~panicked

\* C4: from every reachable state, hard_clear_queue followed by handle_queue
\* leaves currently_playing None and the queue empty.
C4_ClearThenPoll ==
    \A ok \in BOOLEAN, t1 \in Later :
        LET s == handle_queue(hard_clear_queue(Self), ok, t1)
        IN  /\ is_none(s.currently_playing)
            /\ Len(s.queue) = 0

\* A track was started after time 0 and paused, the queue was cleared, and
\* the poll after the clear left the controller idle.
C4_Witness ==
    /\ last = "handle_queue"
    /\ is_none(currently_playing)
    /\ Len(queue) = 0
    /\ started = << >>
    /\ track.start_time > 0
    /\ pause
    /\ ~panicked

\* C5: the pause flag is true exactly when the Transport Clock is Paused
\* (pause_time is set).
C5_PauseFlagIsClock == pause <=> is_some(track.pause_time)

\* A playing track is in its second pause.
C5_Witness ==
    /\ last = "toggle_pause"
    /\ is_some(currently_playing)
    /\ pause
    /\ is_some(track.pause_time)
    /\ track.pause_duration > 0
    /\ ~panicked

ClockPaused == is_some(track.pause_time)
Elapsed == Track_time(track, now)
\* A step in which play_next started a track, and so reset the clock.
ClockResetStep == Len(started') > Len(started)

\* C6: in every step that does not reset the clock (time passing,
\* toggle_pause, any other call), the elapsed value does not decrease when the
\* step starts with the clock Running, and does not change when it starts with
\* the clock Paused.
C6_ElapsedMonotone ==
    [][ ~ClockResetStep =>
          /\ ~ClockPaused => Elapsed' >= Elapsed
          /\ ClockPaused => Elapsed' = Elapsed ]_vars

\* Time has passed inside the second pause of a track.
C6_Witness ==
    /\ ClockPaused
    /\ now > unwrap(track.pause_time)
    /\ track.pause_duration > 0
    /\ last = "tick"

\* C7: the elapsed value is the number of ticks since the clock's reset that
\* did not fall inside a paused interval: the wall time since the reset minus
\* the paused intervals, the one in progress included up to now.
C7_ElapsedIsRunningTime == Elapsed = run_ticks

\* Running again, three ticks after the reset, two of them spent paused.
C7_Witness ==
    /\ ~ClockPaused
    /\ track.pause_duration >= 2
    /\ run_ticks >= 1
    /\ now - track.start_time = 3
    /\ last = "tick"

\* C8 (as claimed): after a failed decode-and-play step the controller does
\* not hold the failed track as currently playing with nothing sounding.
C8_NoBrokenCurrentTrack ==
    ~(panicked /\ is_some(currently_playing) /\ sink_empty(sink))

\* C9 (as claimed): a failure to open or decode a track never aborts the
\* process.
C9_NeverAborts == ~panicked

\* The tracks of the queue, and whether one of them was started or is
\* recorded as currently playing (by path).
QueueHoldsStarted ==
    \E i \in DOMAIN queue :
        \/ queue[i] \in Range(started)
        \/ currently_playing = Some(queue[i])

C11_NoneIffIdle ==
    is_none(currently_playing) <=> (sink_empty(sink) /\ fresh)

\* A poll detected the natural completion of a track; nothing started since.
C11_Witness ==
    /\ last = "handle_queue"
    /\ is_none(currently_playing)
    /\ sink_empty(sink)
    /\ fresh
    /\ Len(started) > 0
    /\ ~panicked

\* C12: append_to_queue of the empty list on an idle controller changes
\* nothing: currently_playing, queue, pause flag, clock and sink stay.
C12_EnqueueNothingOnIdle ==
    (is_none(currently_playing) /\ Len(queue) = 0) =>
        \A ok \in BOOLEAN, t1 \in Later :
            append_to_queue(Self, << >>, ok, t1) = Self

\* The empty list was enqueued on an idle controller that is paused, with
\* the clock started before now.
C12_Witness ==
    /\ last = "append_to_queue"
    /\ is_none(currently_playing)
    /\ Len(queue) = 0
    /\ pause
    /\ track.start_time < now
    /\ ~panicked

\* C13: get_sink_length is 0 whenever nothing is recorded as currently
\* playing; otherwise it is the whole seconds of the time the clock spent
\* Running since its reset.
C13_SinkLength ==
    LET n == get_sink_length(Self, now)
    IN  /\ is_none(currently_playing) => n = 0
        /\ is_some(currently_playing) =>
              /\ n * TicksPerSec <= run_ticks
              /\ run_ticks < (n + 1) * TicksPerSec

\* A track finished one full second after its start, one tick of it paused,
\* and has not been polled yet.
C13_Witness ==
    /\ is_some(currently_playing)
    /\ sink_empty(sink)
    /\ get_sink_length(Self, now) = 1
    /\ track.pause_duration > 0
    /\ ~panicked

\* C14: for every start index i below the length of the library list, the
\* rotation has the length of the list and its k-th element is the element
\* i + k (cyclically) of the list: the chosen track first, the list wrapped;
\* with i = 0 it is the list itself.
C14_Rotation ==
    lib_pc = "ready" =>
        LET n == Len(music_list)
        IN  /\ \A i \in 0..(n - 1) :
                  LET w == get_wrapped_music_list(music_list, i)
                  IN  /\ Len(w) = n
                      /\ \A k \in 1..n : w[k] = music_list[((i + k - 1) % n) + 1]
            /\ n > 0 => get_wrapped_music_list(music_list, 0) = music_list

\* Enter on the third of three tracks: it plays, the first two wait in order.
C14_Witness ==
    /\ last = "library_enter"
    /\ Len(music_list) = 3
    /\ selected = Some(2)
    /\ currently_playing = Some(get_path(music_list[3]))
    /\ queue = << get_path(music_list[1]), get_path(music_list[2]) >>
    /\ ~panicked

\* C15: with the start index equal to the length of the list, the rotation
\* is the list itself, the empty list included.
C15_RotationAtLength ==
    lib_pc = "ready" =>
        get_wrapped_music_list(music_list, Len(music_list)) = music_list

\* Enter on an empty library: the selection 0 is the length of the list, and
\* the rotation enqueued nothing.
C15_Witness ==
    /\ last = "library_enter"
    /\ Len(music_list) = 0
    /\ selected = Some(0)
    /\ is_none(currently_playing)
    /\ ~panicked

Readable(file) == is_some(file.tag)
Strings == { "Unknown", "title", "artist", "album" }

\* C20: AudioFile::new fails exactly for the files whose tag cannot be read
\* and otherwise gives a descriptor with every field set; the library list
\* holds, in the order of the walk, one descriptor for each readable file and
\* nothing else, and building it does not panic.
C20_ListingSkipsFailures ==
    /\ \A i \in DOMAIN scan :
          LET r == AudioFile_new(scan[i])
          IN  /\ is_none(r) <=> ~Readable(scan[i])
              /\ is_some(r) =>
                    /\ unwrap(r).path = scan[i].path
                    /\ unwrap(r).title \in Strings
                    /\ unwrap(r).artist \in Strings
                    /\ unwrap(r).album \in Strings
                    /\ unwrap(r).year \in Nat
                    /\ unwrap(r).duration \in Nat
    /\ (lib_pc = "ready" /\ last = "library_new") =>
          /\ PathsOf(music_list) = PathsOf(SelectSeq(scan, Readable))
          /\ ~panicked

\* Three files were found, the tag of the second could not be read, and the
\* list holds the first and the third.
C20_Witness ==
    /\ last = "library_new"
    /\ lib_pc = "ready"
    /\ Len(scan) = 3
    /\ ~Readable(scan[2])
    /\ Len(music_list) = 2
    /\ get_path(music_list[1]) = scan[1].path
    /\ get_path(music_list[2]) = scan[3].path
    /\ music_list[1].title = "Unknown"

\* C16 (as claimed): a configured device index that is out of range for the
\* enumerated devices does not end startup with a panic.
C16_FallsBack ==
    ~(panicked /\ last = "get_device_by_index")

\* Devices::new returned a registry.
Enumerated ==
    /\ start_pc \in { "enumerated", "indexed", "running", "window" }
    /\ is_some(host_devices)

ShowsTrack(f) == f.shown.tab = 0 /\ is_some(f.shown.label)
ShowsNothing(f) == f.shown.tab = 0 /\ is_none(f.shown.label)

\* C18: in the UI loop, with no key read in between, the last frame showing
\* a track and the first frame showing the track started after it are
\* separated by exactly one frame, and that frame shows nothing playing.
C18_OneIdleFrame ==
    \A i, j \in 1..Len(frames) :
        ( /\ i < j
          /\ ShowsTrack(frames[i])
          /\ ShowsTrack(frames[j])
          /\ frames[i].starts # frames[j].starts
          /\ \A k \in (i + 1)..(j - 1) : ~ShowsTrack(frames[k]) )
        => /\ j = i + 2
           /\ ShowsNothing(frames[i + 1])

\* A track finished, the frame after showed nothing and the next showed the
\* following track of the queue.
C18_Witness ==
    \E i \in 1..Len(frames) :
        /\ i + 2 <= Len(frames)
        /\ ShowsTrack(frames[i])
        /\ ShowsNothing(frames[i + 1])
        /\ ShowsTrack(frames[i + 2])
        /\ frames[i + 2].starts = frames[i].starts + 1

\* C19: a rendered frame, which calls get_next and on the library tab
\* get_currently_playing, get_paused and get_sink_length, shows the head of
\* the queue as next (nothing when the queue is empty) and leaves the queue,
\* the current track, the pause flag, the clock and the sink as they were.
C19_QueriesReadOnly ==
    [][ (ui_pc = "draw" /\ ui_pc' = "handle_queue") =>
            /\ UNCHANGED << queue, currently_playing, pause, track, sink >>
            /\ ~panicked' =>
                  LET f == frames'[Len(frames')].shown
                  IN  /\ f.next_up = IF Len(queue) = 0 THEN None ELSE Some(queue[1])
                      /\ f.tab = 0 =>
                            f.label = IF is_none(currently_playing) THEN None
                                      ELSE Some([ track |-> currently_playing[1],
                                                  paused |-> pause,
                                                  seconds |-> get_sink_length(Self, now) ])
      ]_vars

\* A frame of the library tab was drawn while a track played and another waited.
C19_Witness ==
    /\ last = "draw"
    /\ Len(frames) > 0
    /\ ShowsTrack(frames[Len(frames)])
    /\ is_some(frames[Len(frames)].shown.next_up)
    /\ Len(queue) > 0

\* The lists an append_to_queue can be given in this state.
Enqueueable == { L \in Lists(MaxLen) : Len(enqueued) + Len(L) <= MaxEnq }

\* The state play_next leaves when it starts the head of the queue q at time t.
Advanced(s, q, t) ==
    /\ s.currently_playing = Some(Head(q))
    /\ s.queue = Tail(q)
    /\ is_none(s.track.pause_time)
    /\ Track_time(s.track, t) = 0
    /\ s.track.pause_duration = 0
    /\ ~s.pause
    /\ ~s.sink.paused

\* C21: whenever advancement starts a track, from append_to_queue on a
\* controller with nothing recorded as playing or from handle_queue on an idle
\* one, the popped head is currently playing, the queue is shorter by that one
\* element, the clock is Running with elapsed 0 and accumulated pause 0, the
\* pause flag is false and the sink is resumed; also when the controller was
\* paused before, and also when the decode then fails.
C21_AdvanceStartsHead ==
    is_none(currently_playing) =>
        \A ok \in BOOLEAN :
            /\ \A L \in Enqueueable :
                  Len(queue \o L) > 0 =>
                      Advanced(append_to_queue(Self, L, ok, now), queue \o L, now)
            /\ (sink_empty(sink) /\ Len(queue) > 0) =>
                  Advanced(handle_queue(Self, ok, now), queue, now)

\* A pause was toggled while idle with tracks waiting: the next advance
\* starts from a paused controller whose clock saw an earlier pause.
C21_Witness ==
    /\ last = "toggle_pause"
    /\ is_none(currently_playing)
    /\ sink_empty(sink)
    /\ Len(queue) > 0
    /\ pause
    /\ sink.paused
    /\ track.pause_duration > 0
    /\ ~panicked

\* C22: between controller operations the sink is in its paused mode exactly
\* when the pause flag is true.
C22_SinkPausedIsFlag == sink.paused <=> pause

\* A paused track, still in the sink, was polled.
C22_Witness ==
    /\ last = "handle_queue"
    /\ pause
    /\ sink.paused
    /\ is_some(currently_playing)
    /\ ~sink_empty(sink)
    /\ ~panicked

\* C23: in every step that does not reset the clock, the accumulated pause
\* duration does not decrease; the toggle from Running to Paused and every
\* step that keeps the clock's sub-state leave it unchanged; the toggle from
\* Paused to Running adds the length of the pause it ends.
C23_PauseAccumulates ==
    [][ ~ClockResetStep =>
          /\ track'.pause_duration >= track.pause_duration
          /\ (~ClockPaused /\ ClockPaused') =>
                track'.pause_duration = track.pause_duration
          /\ (ClockPaused /\ ~ClockPaused') =>
                track'.pause_duration =
                    track.pause_duration + (now - unwrap(track.pause_time))
          /\ (ClockPaused <=> ClockPaused') =>
                track'.pause_duration = track.pause_duration ]_vars

\* A playing track was resumed, sounded for a while, and its pauses add up
\* to two ticks or more.
C23_Witness ==
    /\ last = "toggle_pause"
    /\ is_some(currently_playing)
    /\ ~ClockPaused
    /\ track.pause_duration >= 2
    /\ run_ticks > 0
    /\ ~panicked

\* C24: handle_queue called while the sink is not empty changes nothing, and
\* called while idle with an empty queue changes nothing either, so the
\* controller stays idle.
C24_PollLeavesAlone ==
    \A ok \in BOOLEAN, t1 \in Later :
        /\ ~sink_empty(sink) => handle_queue(Self, ok, t1) = Self
        /\ (sink_empty(sink) /\ is_none(currently_playing) /\ Len(queue) = 0) =>
              handle_queue(Self, ok, t1) = Self

\* A track that started earlier, with others waiting, was polled while it
\* still sounded.
C24_Witness ==
    /\ last = "handle_queue"
    /\ ~sink_empty(sink)
    /\ is_some(currently_playing)
    /\ Len(queue) > 0
    /\ ~pause
    /\ track.start_time < now
    /\ ~panicked

\* C25: append_to_queue while a track is recorded as currently playing, be
\* it sounding, paused or finished and not yet polled, only appends to the
\* tail of the queue; nothing else changes and no track is started.
C25_EnqueueWhilePlaying ==
    is_some(currently_playing) =>
        \A L \in Enqueueable, ok \in BOOLEAN :
            append_to_queue(Self, L, ok, now) = [ Self EXCEPT !.queue = queue \o L ]

\* Tracks were enqueued behind a paused track: the pause and the clock of
\* the track are as before.
C25_Witness ==
    /\ last = "append_to_queue"
    /\ is_some(currently_playing)
    /\ pause
    /\ ~sink_empty(sink)
    /\ Len(queue) > 0
    /\ track.start_time < now
    /\ ~panicked

\* A call from this state that starts a track.
Starts(s) == Len(s.started) > Len(started)

\* C26: whenever nothing is recorded as currently playing the sink is
\* empty, and every call that runs play (an append_to_queue or a
\* handle_queue that starts a track) finds the sink empty, so its
\* sink.stop() cuts off nothing.
C26_NoCutOff ==
    /\ is_none(currently_playing) => sink_empty(sink)
    /\ \A ok \in BOOLEAN :
          /\ \A L \in Enqueueable :
                Starts(append_to_queue(Self, L, ok, now)) => sink_empty(sink)
          /\ Starts(handle_queue(Self, ok, now)) => sink_empty(sink)

\* A second track was started after the first one finished, at a later time.
C26_Witness ==
    /\ last \in { "append_to_queue", "handle_queue" }
    /\ Len(started) = 2
    /\ currently_playing = Some(started[2])
    /\ ~sink_empty(sink)
    /\ track.start_time = now
    /\ now > 0
    /\ ~panicked

\* C27: hard_clear_queue leaves the pause flag, the sink's paused mode and
\* the clock as they were, and so does the poll that follows it: a pause in
\* effect before the clear is still in effect.
C27_ClearKeepsPause ==
    LET s == hard_clear_queue(Self)
    IN  /\ s.pause = pause
        /\ s.sink.paused = sink.paused
        /\ s.track = track
        /\ \A ok \in BOOLEAN, t1 \in Later :
              LET p == handle_queue(s, ok, t1)
              IN  /\ p.pause = pause
                  /\ p.sink.paused = sink.paused
                  /\ p.track = track

\* A track paused for the second time was cleared: the clock is still in
\* that pause.
C27_Witness ==
    /\ last = "hard_clear_queue"
    /\ pause
    /\ ClockPaused
    /\ track.pause_duration > 0
    /\ unwrap(track.pause_time) < now
    /\ sink_empty(sink)
    /\ Len(queue) = 0

\* The tracks a step enqueued.
Suffix(a, b) == SubSeq(b, Len(a) + 1, Len(b))

\* C28: no enqueued track is lost or played twice. In every step other
\* than a hard_clear_queue, the queue (with what the step enqueued) either
\* stays whole and no track is started, or loses exactly its head, and that
\* head is made currently playing and is the one track started; a
\* hard_clear_queue discards the whole queue and starts nothing.
C28_NoTrackLost ==
    [][ IF last' = "hard_clear_queue"
        THEN queue' = << >> /\ started' = << >> /\ is_none(currently_playing')
        ELSE /\ IsPrefix(enqueued, enqueued')
             /\ LET q == queue \o Suffix(enqueued, enqueued')
                IN  \/ queue' = q /\ started' = started
                    \/ /\ Len(q) > 0
                       /\ queue' = Tail(q)
                       /\ currently_playing' = Some(Head(q))
                       /\ started' = Append(started, Head(q)) ]_vars

\* Three instances were enqueued, the first two of the same file; each was
\* started once, in order, and the queue is empty.
C28_Witness ==
    /\ Len(enqueued) = 3
    /\ enqueued[1] = enqueued[2]
    /\ started = enqueued
    /\ Len(queue) = 0
    /\ currently_playing = Some(started[3])
    /\ ~panicked

\* C30: reset, applied to the clock in any state it can be in and at any
\* time, gives a Running clock that started at that time, with no pause in
\* progress and no accumulated pause; nothing of the earlier history shows
\* in the elapsed value afterwards.
C30_ResetDiscards ==
    \A t1 \in Later :
        LET r == Track_reset(track, t1)
        IN  /\ r.start_time = t1
            /\ is_none(r.pause_time)
            /\ r.pause_duration = 0
            /\ r = Track_new(t1)
            /\ \A t2 \in t1..MaxTime : Track_time(r, t2) = t2 - t1

\* The clock that the next start will reset is in a pause that has lasted,
\* after an earlier pause that was added.
C30_Witness ==
    /\ ClockPaused
    /\ unwrap(track.pause_time) < now
    /\ track.pause_duration > 0
    /\ track.start_time < unwrap(track.pause_time)
    /\ is_none(currently_playing)
    /\ ~panicked

Idle == is_none(currently_playing) /\ Len(queue) = 0
NoMoreClears == <>[](last # "hard_clear_queue")
NoMoreEnqueues == <>[](last # "append_to_queue")
\* Every track waiting in the queue becomes currently playing, unless a
\* hard_clear_queue comes first.
EveryTrackStarts ==
    \A p \in Paths :
        (\E k \in 1..Len(queue) : queue[k] = p)
            ~> (currently_playing = Some(p) \/ last = "hard_clear_queue")

C31_OneDecodePerTrack ==
    /\ played = started
    /\ \A ok \in BOOLEAN :
          /\ LET p == handle_queue(Self, ok, now)
             IN  /\ Len(p.played) <= Len(played) + 1
                 /\ ( \/ ~sink_empty(sink)
                      \/ is_some(currently_playing)
                      \/ Len(queue) = 0 ) => p.played = played
          /\ \A L \in Enqueueable :
                Len(append_to_queue(Self, L, ok, now).played) <= Len(played) + 1

\* Two instances of one file were started, one after the other, and polled:
\* the file was decoded once for each.
C31_Witness ==
    /\ last = "handle_queue"
    /\ Len(played) = 2
    /\ played[1] = played[2]
    /\ currently_playing = Some(played[2])
    /\ track.start_time = now
    /\ Len(queue) > 0
    /\ ~panicked

\* C32: once Devices::new has returned, no step changes the registry's
\* device list, name list or current-device index; Enter in the device
\* window sets the settings' device to the selected row and nothing else of
\* the window or the registry.
C32_RegistryFrozen ==
    [][ Enumerated =>
          /\ UNCHANGED << devices, device_names, current_device >>
          /\ (last' = "device_enter" /\ ~panicked') =>
                /\ settings_device' = unwrap(dev_selected)
                /\ UNCHANGED dev_selected ]_vars

\* A device other than the registry's current one was chosen.
C32_Witness ==
    /\ start_pc = "window"
    /\ last = "device_enter"
    /\ settings_device # current_device
    /\ settings_device = unwrap(dev_selected)
    /\ Len(devices) >= 2
    /\ ~panicked

\* C33: toggle_pause leaves the queue and currently-playing alone, and a
\* second toggle_pause after it, at the same instant or later, gives back
\* the pause flag, the sink's paused mode and the clock's Running/Paused
\* sub-state that held before the first; when both happen at one instant
\* the elapsed value is the same too.
C33_ToggleTwice ==
    LET s1 == toggle_pause(Self, now)
    IN  /\ s1.queue = queue
        /\ s1.currently_playing = currently_playing
        /\ \A t2 \in Later :
              LET s2 == toggle_pause(s1, t2)
              IN  /\ s2.queue = queue
                  /\ s2.currently_playing = currently_playing
                  /\ s2.pause = pause
                  /\ s2.sink.paused = sink.paused
                  /\ is_some(s2.track.pause_time) <=> ClockPaused
                  /\ (t2 = now) => Track_time(s2.track, t2) = Elapsed

\* A track was paused and has just been resumed, with more queued behind it.
C33_Witness ==
    /\ last = "toggle_pause"
    /\ ~pause
    /\ ~sink.paused
    /\ ~ClockPaused
    /\ track.pause_duration > 0
    /\ is_some(currently_playing)
    /\ Len(queue) > 0
    /\ ~panicked

\* How often x occurs in the sequence f.
Occurrences(f, x) == Cardinality({ k \in DOMAIN f : f[k] = x })

\* g holds the elements of f, each as often as f does.
IsPermutation(f, g) ==
    /\ Len(f) = Len(g)
    /\ \A x \in Range(f) \cup Range(g) : Occurrences(f, x) = Occurrences(g, x)

\* C34: with a non-empty library list the selection is always an index of
\* the list; next and previous move it by one modulo the length (from the
\* last row to the first and from the first to the last); the rotation Enter
\* makes at the selection is a permutation of the list, and it is what Enter
\* enqueued.
C34_SelectionInRange ==
    (lib_pc = "ready" /\ Len(music_list) > 0) =>
        LET len == Len(music_list)
            i   == unwrap(selected)
            wrapped_music_list == get_wrapped_music_list(music_list, i)
        IN  /\ is_some(selected)
            /\ i \in 0..(len - 1)
            /\ \A checks \in BOOLEAN :
                  /\ LibraryWindow_next(music_list, selected, checks)
                        = Some(Some((i + 1) % len))
                  /\ LibraryWindow_previous(music_list, selected, checks)
                        = Some(Some((i + len - 1) % len))
            /\ IsPermutation(music_list, wrapped_music_list)
            /\ wrapped_music_list[1] = music_list[i + 1]
            /\ (last = "library_enter") =>
                  /\ enqueued = PathsOf(wrapped_music_list)
                  /\ IsPermutation(PathsOf(music_list), enqueued)

\* Enter at the last row of a list of two or more: the last track comes first.
C34_Witness ==
    /\ lib_pc = "ready"
    /\ last = "library_enter"
    /\ Len(music_list) >= 2
    /\ selected = Some(Len(music_list) - 1)
    /\ enqueued # PathsOf(music_list)
    /\ enqueued[1] = get_path(music_list[Len(music_list)])
    /\ ~panicked

====
